---- MODULE Spec2Model ----
(***************************************************************************)
(* CodeAssess API: the document store, the request schemas and the         *)
(* resource handlers of main.py, as a state machine.  One action per HTTP  *)
(* handler; the state is the document store, the store handle and the      *)
(* last request/response pair.  A second specification serves the create  *)
(* requests concurrently, one worker thread per request, with the store    *)
(* call as the only step that touches shared state.                        *)
(*                                                                         *)
(* Python str values that the code inspects (identifiers, query            *)
(* parameters) are sequences of one-character strings; text that is only   *)
(* stored and returned (titles, names) is a plain string.  An Optional     *)
(* query parameter is a set: {} for an omitted parameter, {v} otherwise.   *)
(* The request bodies are well typed: validation is modelled for missing   *)
(* required fields, enumerated values, unknown fields and default-fill.    *)
(***************************************************************************)
EXTENDS Integers, Sequences, FiniteSets, TLC

VARIABLES
    db,        \* the process-wide store handle: "None" or "Database"
    store,     \* collection name -> sequence of stored documents (insertion order)
    nextOid,   \* the store's counter for the next native identifier
    created,   \* history: <<collection, returned id, request body>> of each successful
               \* create since the start
    resp,      \* the last request (fault: its store call fails) and its response
    inflight   \* worker -> the create request it is serving and how far it has got

vars == <<db, store, nextOid, created, resp, inflight>>

(* ----------------------------- bounds ---------------------------------- *)

\* the number of documents the store may hold, over all collections
MaxDocs == 2

(* ------------------------- native identifiers -------------------------- *)

\* a bson ObjectId is 12 bytes, 24 hexadecimal digits as a string
OidLen == 24

HexLower == <<"0","1","2","3","4","5","6","7","8","9","a","b","c","d","e","f">>
HexUpper == <<"0","1","2","3","4","5","6","7","8","9","A","B","C","D","E","F">>

Range(s) == {s[i] : i \in DOMAIN s}

HexChars == Range(HexLower) \cup Range(HexUpper)

\* ObjectId.is_valid(test_id) on a str: 24 characters, all hexadecimal digits
ObjectIdIsValid(s) ==
    /\ Len(s) = OidLen
    /\ \A i \in 1..Len(s) : s[i] \in HexChars

NibbleOf(c) == CHOOSE n \in 0..15 : HexLower[n + 1] = c \/ HexUpper[n + 1] = c

\* ObjectId(test_id): the native identifier parsed from its string form
ObjectId(s) == [i \in 1..OidLen |-> NibbleOf(s[i])]

\* str(ObjectId): lower-case hexadecimal
ObjectIdStr(o) == [i \in 1..OidLen |-> HexLower[o[i] + 1]]

\* the native identifier the store assigns to its n-th inserted document
NewOid(n) ==
    [i \in 1..OidLen |->
        IF i = 1 THEN 10
        ELSE IF i = OidLen THEN n % 16
        ELSE IF i = OidLen - 1 THEN (n \div 16) % 16
        ELSE 0]

UpperCase(s) == [i \in 1..Len(s) |->
                    IF \E n \in 1..16 : HexLower[n] = s[i]
                    THEN HexUpper[CHOOSE n \in 1..16 : HexLower[n] = s[i]]
                    ELSE s[i]]

(* ------------------------------ schemas -------------------------------- *)

\* Python's None as a field value
Null == [null |-> TRUE]

Role == {"test_taker", "manager", "admin"}
QuestionType == {"mcq", "code"}
AttemptStatus == {"active", "finished"}

\* a validated model: the schema's fields only, the body's value where given,
\* the default otherwise (fields the schema does not declare are ignored)
Fill(body, required, defaults) ==
    [f \in required \cup DOMAIN defaults |->
        IF f \in DOMAIN body THEN body[f] ELSE defaults[f]]

\* an enumerated (Literal) field that is given a value outside its set
BadEnum(body, f, allowed) ==
    IF f \in DOMAIN body /\ body[f] \notin allowed THEN {f} ELSE {}

UserRequired == {"name", "email"}
UserDefaults == [role |-> "test_taker", avatar_url |-> Null, is_active |-> TRUE]
UserErrors(b) == (UserRequired \ DOMAIN b) \cup BadEnum(b, "role", Role)
UserValid(b) == UserErrors(b) = {}
UserModel(b) == Fill(b, UserRequired, UserDefaults)

QuestionRequired == {"title", "prompt"}
QuestionDefaults == [type |-> "mcq", options |-> Null, points |-> 1,
                     starter_code |-> Null, language |-> Null]
QuestionErrors(q) == (QuestionRequired \ DOMAIN q) \cup BadEnum(q, "type", QuestionType)
QuestionValid(q) == QuestionErrors(q) = {}
QuestionModel(q) == Fill(q, QuestionRequired, QuestionDefaults)

TestRequired == {"title", "description"}
\* published defaulting to True
TestDefaultsPublished ==
    [duration_minutes |-> 60, tags |-> <<>>, published |-> TRUE,
     questions |-> <<>>, created_by |-> Null]

TestDefaults == [duration_minutes |-> 60, tags |-> <<>>, published |-> FALSE,
                 questions |-> <<>>, created_by |-> Null]
TestErrors(b) ==
    (TestRequired \ DOMAIN b) \cup
    (IF "questions" \in DOMAIN b
        /\ \E i \in 1..Len(b["questions"]) : ~QuestionValid(b["questions"][i])
     THEN {"questions"} ELSE {})
TestValid(b) == TestErrors(b) = {}
TestModel(b) ==
    LET m == Fill(b, TestRequired, TestDefaults)
    IN  [m EXCEPT !["questions"] = [i \in 1..Len(@) |-> QuestionModel(@[i])]]

SubmissionRequired == {"attempt_id", "test_id", "question_index"}
SubmissionDefaults == [answer_option_ids |-> Null, code_answer |-> Null,
                       language |-> Null, created_at |-> Null]
SubmissionErrors(b) == SubmissionRequired \ DOMAIN b
SubmissionValid(b) == SubmissionErrors(b) = {}
SubmissionModel(b) == Fill(b, SubmissionRequired, SubmissionDefaults)

AttemptRequired == {"test_id", "user_email", "user_name"}
AttemptDefaults == [status |-> "active", started_at |-> Null, finished_at |-> Null,
                    score |-> 0, total_points |-> 0, submissions |-> <<>>]
\* status declared as a plain str
AttemptErrorsAnyStatus(b) == AttemptRequired \ DOMAIN b

AttemptErrors(b) == (AttemptRequired \ DOMAIN b) \cup BadEnum(b, "status", AttemptStatus)
AttemptValid(b) == AttemptErrors(b) = {}
AttemptModel(b) == Fill(b, AttemptRequired, AttemptDefaults)

(* ------------------- document store adapter (database.py) -------------- *)

\* the text of an exception, str(e): what it says and its number of characters
Text(words, len) == [words |-> words, len |-> len]

\* the length str(e)[:80] cuts to
TruncLen == 80

\* text[:n]
Truncate(text, n) == [text EXCEPT !.len = IF @ < n THEN @ ELSE n]

\* the store has no handle; the subscript of None; a failing store call, whose
\* driver message names the servers it tried
NotAvailable == Text("Database not available", 22)
NotSubscriptable == Text("'NoneType' object is not subscriptable", 38)
StoreError == Text("ServerSelectionTimeoutError: connection refused, ...", 120)

Exception(msg) == [kind |-> "Exception", msg |-> msg]
HTTPException(status_code, detail) ==
    [kind |-> "HTTPException", status_code |-> status_code, detail |-> detail]

\* the outcome of a call: a returned value or a raised exception, the number
\* of store accesses it made, and the store it leaves
Return(val, calls, st, next) ==
    [ok |-> TRUE, val |-> val, calls |-> calls, store |-> st, next |-> next]
Raise(exc, calls) ==
    [ok |-> FALSE, val |-> exc, calls |-> calls, store |-> store, next |-> nextOid]

WithId(doc, oid) ==
    [f \in DOMAIN doc \cup {"_id"} |-> IF f = "_id" THEN oid ELSE doc[f]]

\* db[collection_name].insert_one(data)
insert_one(st, collection_name, data, n) ==
    [st EXCEPT ![collection_name] = Append(@, WithId(data, NewOid(n)))]

\* create_document(collection_name, data): insert the serialized model, return
\* the new identifier as a string; fault: the store call fails
create_document(collection_name, data, fault) ==
    IF db = "None" THEN Raise(Exception(NotAvailable), 0)
    ELSE IF fault THEN Raise(Exception(StoreError), 1)
    ELSE Return(ObjectIdStr(NewOid(nextOid)), 1,
                insert_one(store, collection_name, data, nextOid), nextOid + 1)

Matches(d, filter_dict) ==
    \A f \in DOMAIN filter_dict : f \in DOMAIN d /\ d[f] = filter_dict[f]

Find(collection_name, filter_dict) ==
    LET M(d) == Matches(d, filter_dict)
    IN  SelectSeq(store[collection_name], M)

Take(s, n) == SubSeq(s, 1, IF n < Len(s) THEN n ELSE Len(s))

\* get_documents(collection_name, filter_dict, limit): the documents matching
\* every field of the filter, in insertion order, capped at a given limit.
\* What a limit of zero or below returns is not determined: any prefix.
get_documents(collection_name, filter_dict, limit, fault) ==
    IF db = "None" THEN {Raise(Exception(NotAvailable), 0)}
    ELSE IF fault THEN {Raise(Exception(StoreError), 1)}
    ELSE LET found == Find(collection_name, filter_dict)
             caps  == IF limit = {} THEN {Len(found)}
                      ELSE {IF n >= 1 THEN n ELSE k : n \in limit, k \in 0..Len(found)}
         IN  {Return(Take(found, c), 1, store, nextOid) : c \in caps}

(* --------------------------- handlers (main.py) ------------------------ *)

\* _doc that returns the raw document
_doc_raw(d) == d

\* _doc(d): the native identifier renamed to "id", as a string
_doc(d) ==
    IF DOMAIN d = {} THEN d
    ELSE IF "_id" \in DOMAIN d
    THEN [f \in (DOMAIN d \ {"_id"}) \cup {"id"} |->
             IF f = "id" THEN ObjectIdStr(d["_id"]) ELSE d[f]]
    ELSE d

\* the handler cutting the text as /test does: detail=str(e)[:80]
ExceptExceptionCut(r) ==
    IF r.ok THEN r
    ELSE [r EXCEPT !.val = HTTPException(500, Truncate(r.val.msg, TruncLen))]

\* except Exception as e: raise HTTPException(status_code=500, detail=str(e))
ExceptException(r) ==
    IF r.ok THEN r ELSE [r EXCEPT !.val = HTTPException(500, r.val.msg)]

\* the handler without its "except HTTPException: raise" clause
ExceptAll(r) ==
    IF r.ok THEN r ELSE [r EXCEPT !.val = HTTPException(500, "wrapped")]

\* except HTTPException: raise, before except Exception
ExceptHTTPException(r) ==
    IF ~r.ok /\ r.val.kind = "HTTPException" THEN r ELSE ExceptException(r)

\* return {"id": ...} of the identifier the store issued last, to any request
ReturnIdShared(r) ==
    IF r.ok THEN [r EXCEPT !.val = [id |-> ObjectIdStr(NewOid(nextOid - 1))]] ELSE r

\* return {"id": inserted_id}
ReturnId(r) == IF r.ok THEN [r EXCEPT !.val = [id |-> r.val]] ELSE r

\* return [_doc(d) for d in docs]
ReturnDocs(r) ==
    IF r.ok THEN [r EXCEPT !.val = [i \in 1..Len(@) |-> _doc(@[i])]] ELSE r

\* a health check that pings the store
read_root_pinging(fault) ==
    IF db = "None" THEN Raise(HTTPException(500, NotAvailable), 0)
    ELSE IF fault THEN Raise(HTTPException(500, StoreError), 1)
    ELSE Return([message |-> "CodeAssess Backend Running"], 1, store, nextOid)

\* GET /health; fault: the store would fail a call made now
read_root(fault) == Return([message |-> "CodeAssess Backend Running"], 0, store, nextOid)

\* GET /schema
get_schema(fault) ==
    Return([collections |-> <<"user", "test", "attempt", "submission">>], 0, store, nextOid)

\* db.list_collection_names(): the collections that hold a document
CollectionNames ==
    LET NotEmpty(c) == store[c] # <<>>
    IN  SelectSeq(<<"user", "test", "attempt", "submission">>, NotEmpty)

\* the "database" line of /test: what it says and the error text it quotes
Line(says, error) == [says |-> says, error |-> error]
NoText == Text("", 0)

\* the response /test starts from
Diagnosis ==
    [backend |-> "Running", database |-> Line("Not Available", NoText),
     database_url |-> Null, database_name |-> Null,
     connection_status |-> "Not Connected", collections |-> <<>>]

\* os.getenv("DATABASE_URL") and os.getenv("DATABASE_NAME")
EnvLines(response, url_set, name_set) ==
    [response EXCEPT !.database_url = IF url_set THEN "Set" ELSE "Not Set",
                     !.database_name = IF name_set THEN "Set" ELSE "Not Set"]

\* /test that reports the connection before it lists the collections
test_database_eager(fault, url_set, name_set) ==
    LET probed ==
            IF db # "None"
            THEN IF ~fault
                 THEN [Diagnosis EXCEPT !.collections = Take(CollectionNames, 10),
                                        !.database = Line("Connected & Working", NoText),
                                        !.connection_status = "Connected"]
                 ELSE [Diagnosis EXCEPT !.connection_status = "Connected",
                                        !.database = Line("Connected but Error",
                                                          Truncate(StoreError, TruncLen))]
            ELSE [Diagnosis EXCEPT !.database = Line("Available but not initialized", NoText)]
    IN  Return(EnvLines(probed, url_set, name_set), IF db # "None" THEN 1 ELSE 0,
               store, nextOid)

\* GET /test: the store diagnostic; an error of list_collection_names is
\* quoted, cut to 80 characters, and the request is served
test_database(fault, url_set, name_set) ==
    LET probed ==
            IF db # "None"
            THEN IF ~fault
                 THEN [Diagnosis EXCEPT !.collections = Take(CollectionNames, 10),
                                        !.database = Line("Connected & Working", NoText),
                                        !.connection_status = "Connected"]
                 ELSE [Diagnosis EXCEPT !.database = Line("Connected but Error",
                                                          Truncate(StoreError, TruncLen))]
            ELSE [Diagnosis EXCEPT !.database = Line("Available but not initialized", NoText)]
    IN  Return(EnvLines(probed, url_set, name_set), IF db # "None" THEN 1 ELSE 0,
               store, nextOid)

create_test(test, fault) ==
    ExceptException(ReturnId(create_document("test", test, fault)))

\* the default of the limit query parameter
DefaultLimit == 50

\* list_tests that does not pass its limit on
list_tests_unlimited(limit, fault) ==
    {ExceptException(ReturnDocs(r)) : r \in get_documents("test", <<>>, {}, fault)}

list_tests(limit, fault) ==
    {ExceptException(ReturnDocs(r)) : r \in get_documents("test", <<>>, {limit}, fault)}

\* limit declared as Optional[int] = None
list_tests_default_none(fault) == list_tests_unlimited(DefaultLimit, fault)

\* list_tests called without the limit query parameter
list_tests_default(fault) == list_tests(DefaultLimit, fault)

\* find_one given the identifier as a str, not as an ObjectId: nothing matches
find_one_test_unparsed(test_id, fault) ==
    IF db = "None" THEN Raise(Exception(NotSubscriptable), 0)
    ELSE IF fault THEN Raise(Exception(StoreError), 1)
    ELSE Return(<<>>, 1, store, nextOid)

\* db["test"].find_one({"_id": ObjectId(test_id)}): with no handle the
\* subscript raises before any store access
find_one_test(test_id, fault) ==
    IF db = "None" THEN Raise(Exception(NotSubscriptable), 0)
    ELSE IF fault THEN Raise(Exception(StoreError), 1)
    ELSE Return(Find("test", [_id |-> ObjectId(test_id)]), 1, store, nextOid)

\* get_test without the is_valid check: ObjectId(test_id) raises InvalidId
get_test_unchecked(test_id, fault) ==
    ExceptHTTPException(
        IF ~ObjectIdIsValid(test_id)
        THEN Raise(Exception(Text("not a valid ObjectId", 20)), 0)
        ELSE LET r == find_one_test(test_id, fault)
             IN  IF ~r.ok THEN r
                 ELSE IF r.val = <<>>
                 THEN Raise(HTTPException(404, "Test not found"), r.calls)
                 ELSE [r EXCEPT !.val = _doc(@[1])])

get_test(test_id, fault) ==
    ExceptHTTPException(
        IF ~ObjectIdIsValid(test_id)
        THEN Raise(HTTPException(400, "Invalid test id"), 0)
        ELSE LET r == find_one_test(test_id, fault)
             IN  IF ~r.ok THEN r
                 ELSE IF r.val = <<>>
                 THEN Raise(HTTPException(404, "Test not found"), r.calls)
                 ELSE [r EXCEPT !.val = _doc(@[1])])

\* start_attempt that also finishes the user's earlier attempts
start_attempt_finishing(attempt, fault) ==
    LET r == ExceptException(ReturnId(create_document("attempt", attempt, fault)))
    IN  IF ~r.ok THEN r
        ELSE [r EXCEPT !.store["attempt"] =
                 [i \in DOMAIN @ |->
                     IF i < Len(@) /\ @[i]["user_email"] = attempt["user_email"]
                     THEN [@[i] EXCEPT !["status"] = "finished"] ELSE @[i]]]

\* start_attempt that refuses a test_id naming no stored test
start_attempt_checked(attempt, fault) ==
    IF db = "Database" /\ ~fault
       /\ \A i \in DOMAIN store["test"] :
             ObjectIdStr(store["test"][i]["_id"]) # attempt["test_id"]
    THEN Raise(HTTPException(404, "Test not found"), 1)
    ELSE ExceptException(ReturnId(create_document("attempt", attempt, fault)))

start_attempt(attempt, fault) ==
    ExceptException(ReturnId(create_document("attempt", attempt, fault)))

\* "if test_id is not None:"
TruthyGiven(param) == param # {}

\* "if test_id:" on an Optional[str]: given and not empty
Truthy(param) == \E v \in param : Len(v) > 0

\* the second "if" sets the test_id key again: user_email never filters
AttemptFilterOneKey(test_id, user_email) ==
    LET p == [test_id |-> test_id]
    IN  [f \in {g \in DOMAIN p : \E v \in p[g] : Len(v) > 0} |-> CHOOSE v \in p[f] : TRUE]

\* the filter of list_attempts: one entry per truthy parameter
AttemptFilter(test_id, user_email) ==
    LET p == [test_id |-> test_id, user_email |-> user_email]
    IN  [f \in {g \in DOMAIN p : Truthy(p[g])} |-> CHOOSE v \in p[f] : TRUE]

list_attempts(test_id, user_email, fault) ==
    {ExceptException(ReturnDocs(r)) :
        r \in get_documents("attempt", AttemptFilter(test_id, user_email), {}, fault)}

\* add_submission that also appends the new identifier to the submissions
\* of the attempt its attempt_id names
add_submission_linking(sub, fault) ==
    LET r == ExceptException(ReturnId(create_document("submission", sub, fault)))
    IN  IF ~r.ok THEN r
        ELSE [r EXCEPT !.store["attempt"] =
                 [i \in DOMAIN @ |->
                     IF ObjectIdStr(@[i]["_id"]) = sub["attempt_id"]
                     THEN [@[i] EXCEPT !["submissions"] = Append(@, r.val.id)]
                     ELSE @[i]]]

add_submission(sub, fault) ==
    ExceptException(ReturnId(create_document("submission", sub, fault)))

SubmissionFilter(attempt_id) ==
    LET p == [attempt_id |-> attempt_id]
    IN  [f \in {g \in DOMAIN p : Truthy(p[g])} |-> CHOOSE v \in p[f] : TRUE]

list_submissions(attempt_id, fault) ==
    {ExceptException(ReturnDocs(r)) :
        r \in get_documents("submission", SubmissionFilter(attempt_id), {}, fault)}

(* ------------------------------ requests ------------------------------- *)

IdStr(n) == ObjectIdStr(NewOid(n))

NotAnId == <<"n","o","t","-","a","-","v","a","l","i","d","-","i","d">>
BadHex == [IdStr(1) EXCEPT ![2] = "g"]

PathIds == {IdStr(n) : n \in 1..(MaxDocs + 1)} \cup {UpperCase(IdStr(1)), NotAnId, BadHex}

EmailA == <<"a","@","b",".","c","o","m">>
EmailB == <<"c","@","d">>
Empty == <<>>

TestBodies == {
    [title |-> "Frontend Basics", description |-> "", duration_minutes |-> 60,
     tags |-> <<"js">>, questions |-> <<>>],
    [title |-> "Algo", description |-> "sorting", difficulty |-> "easy"],
    [title |-> "Py", description |-> "d", duration_minutes |-> 30, published |-> TRUE,
     questions |-> <<[title |-> "Q1", prompt |-> "2+2?"]>>, created_by |-> "m@x"],
    [description |-> "no title"],
    [title |-> "Essay", description |-> "d",
     questions |-> <<[title |-> "Q1", prompt |-> "p", type |-> "essay"]>>] }

AttemptBodies == {
    [test_id |-> IdStr(1), user_email |-> EmailA, user_name |-> "A", status |-> "active"],
    [test_id |-> IdStr(1), user_email |-> EmailB, user_name |-> "B"],
    [test_id |-> NotAnId, user_email |-> Empty, user_name |-> "C", status |-> "finished"],
    [test_id |-> IdStr(1), user_email |-> EmailA, status |-> "started"],
    [test_id |-> IdStr(1), user_email |-> EmailA, user_name |-> "A", status |-> "started"],
    [test_id |-> IdStr(1), user_email |-> EmailA] }

SubmissionBodies == {
    [attempt_id |-> IdStr(1), test_id |-> IdStr(1), question_index |-> 0,
     answer_option_ids |-> <<"A">>],
    [attempt_id |-> NotAnId, test_id |-> IdStr(1), question_index |-> 7,
     code_answer |-> "print(1)", language |-> "python"],
    [attempt_id |-> IdStr(1), language |-> "python", code |-> "x", notes |-> ""] }

UserBodies == {
    [name |-> "U", email |-> EmailA],
    [name |-> "M", email |-> EmailB, role |-> "manager", is_active |-> FALSE],
    [name |-> "R", email |-> EmailA, role |-> "root"],
    [email |-> EmailA] }

Limits == {-1, 0, 1, 2, DefaultLimit}

TestIdParams == {{}, {Empty}, {IdStr(1)}, {NotAnId}}
EmailParams == {{}, {Empty}, {EmailA}, {EmailB}}
AttemptIdParams == {{}, {Empty}, {IdStr(1)}, {NotAnId}}

(* ------------------------------- actions ------------------------------- *)

Collections == {"user", "test", "attempt", "submission"}

\* the threads that serve requests, and a thread that serves none
Workers == 1..MaxDocs
Idle == [pc |-> "idle"]

Init ==
    /\ db \in {"None", "Database"}
    /\ store = [c \in Collections |-> <<>>]
    /\ nextOid = 1
    /\ created = <<>>
    /\ resp = [op |-> "none", req |-> <<>>, fault |-> FALSE, status |-> 0, body |-> <<>>, calls |-> 0]
    /\ inflight = [w \in Workers |-> Idle]

\* the response to a request whose handler ended with outcome r
Answer(op, req, fault, r) ==
    resp' = [op |-> op, req |-> req, fault |-> fault,
             status |-> IF r.ok THEN 200 ELSE r.val.status_code,
             body |-> IF r.ok THEN r.val ELSE [detail |-> r.val.detail],
             calls |-> r.calls]

\* a request served in one step: the response, and the store its handler leaves
Serve(op, req, fault, r) ==
    /\ Answer(op, req, fault, r)
    /\ store' = r.store
    /\ nextOid' = r.next
    /\ UNCHANGED <<db, inflight>>

\* request validation fails: 422 naming the fields, the handler does not run
Reject(op, req, errors) ==
    /\ resp' = [op |-> op, req |-> req, fault |-> FALSE, status |-> 422,
                body |-> [detail |-> errors], calls |-> 0]
    /\ UNCHANGED <<db, store, nextOid, created, inflight>>

\* a successful create is recorded in the history
Record(collection_name, body, r) ==
    created' = IF r.ok THEN Append(created, [coll |-> collection_name,
                                             id |-> r.val.id, body |-> body])
               ELSE created

PostTest(body, fault) ==
    /\ Len(created) < MaxDocs
    /\ IF ~TestValid(body) THEN Reject("create_test", body, TestErrors(body))
       ELSE LET r == create_test(TestModel(body), fault)
            IN  Serve("create_test", body, fault, r) /\ Record("test", body, r)

GetTests(limit, fault) ==
    /\ \E r \in list_tests(limit, fault) :
          Serve("list_tests", [limit |-> limit, given |-> TRUE], fault, r)
    /\ UNCHANGED created

GetTestsDefault(fault) ==
    /\ \E r \in list_tests_default(fault) :
          Serve("list_tests", [limit |-> DefaultLimit, given |-> FALSE], fault, r)
    /\ UNCHANGED created

GetTest(test_id, fault) ==
    /\ Serve("get_test", [test_id |-> test_id], fault, get_test(test_id, fault))
    /\ UNCHANGED created

PostAttempt(body, fault) ==
    /\ Len(created) < MaxDocs
    /\ IF ~AttemptValid(body) THEN Reject("start_attempt", body, AttemptErrors(body))
       ELSE LET r == start_attempt(AttemptModel(body), fault)
            IN  Serve("start_attempt", body, fault, r) /\ Record("attempt", body, r)

GetAttempts(test_id, user_email, fault) ==
    /\ \E r \in list_attempts(test_id, user_email, fault) :
          Serve("list_attempts", [test_id |-> test_id, user_email |-> user_email], fault, r)
    /\ UNCHANGED created

PostSubmission(body, fault) ==
    /\ Len(created) < MaxDocs
    /\ IF ~SubmissionValid(body) THEN Reject("add_submission", body, SubmissionErrors(body))
       ELSE LET r == add_submission(SubmissionModel(body), fault)
            IN  Serve("add_submission", body, fault, r) /\ Record("submission", body, r)

GetSubmissions(attempt_id, fault) ==
    /\ \E r \in list_submissions(attempt_id, fault) :
          Serve("list_submissions", [attempt_id |-> attempt_id], fault, r)
    /\ UNCHANGED created

Health(fault) ==
    /\ Serve("read_root", <<>>, fault, read_root(fault))
    /\ UNCHANGED created

Schema(fault) ==
    /\ Serve("get_schema", <<>>, fault, get_schema(fault))
    /\ UNCHANGED created

TestDatabase(fault, url_set, name_set) ==
    /\ Serve("test_database", [url_set |-> url_set, name_set |-> name_set], fault,
             test_database(fault, url_set, name_set))
    /\ UNCHANGED created

Next ==
    \/ \E fault \in BOOLEAN : Health(fault)
    \/ \E fault \in BOOLEAN, url_set \in BOOLEAN, name_set \in BOOLEAN :
          TestDatabase(fault, url_set, name_set)
    \/ \E fault \in BOOLEAN : Schema(fault)
    \/ \E body \in TestBodies, fault \in BOOLEAN : PostTest(body, fault)
    \/ \E limit \in Limits, fault \in BOOLEAN : GetTests(limit, fault)
    \/ \E fault \in BOOLEAN : GetTestsDefault(fault)
    \/ \E test_id \in PathIds, fault \in BOOLEAN : GetTest(test_id, fault)
    \/ \E body \in AttemptBodies, fault \in BOOLEAN : PostAttempt(body, fault)
    \/ \E test_id \in TestIdParams, user_email \in EmailParams, fault \in BOOLEAN :
          GetAttempts(test_id, user_email, fault)
    \/ \E body \in SubmissionBodies, fault \in BOOLEAN : PostSubmission(body, fault)
    \/ \E attempt_id \in AttemptIdParams, fault \in BOOLEAN :
          GetSubmissions(attempt_id, fault)

Spec == Init /\ [][Next]_vars

(* ------------------- the test collection near the cap ------------------ *)

\* a store that already holds one test fewer than the default limit
PreloadedTests == DefaultLimit - 1

InitBulk ==
    /\ db = "Database"
    /\ store = [c \in Collections |->
                  IF c = "test"
                  THEN [i \in 1..PreloadedTests |->
                           WithId(TestModel([title |-> "Frontend Basics", description |-> ""]),
                                  NewOid(i))]
                  ELSE <<>>]
    /\ nextOid = PreloadedTests + 1
    /\ created = <<>>
    /\ resp = [op |-> "none", req |-> <<>>, fault |-> FALSE, status |-> 0, body |-> <<>>, calls |-> 0]
    /\ inflight = [w \in Workers |-> Idle]

NextBulk ==
    \/ \E body \in TestBodies, fault \in BOOLEAN : PostTest(body, fault)
    \/ \E limit \in {l \in Limits : l >= 1}, fault \in BOOLEAN : GetTests(limit, fault)
    \/ \E fault \in BOOLEAN : GetTestsDefault(fault)

SpecBulk == InitBulk /\ [][NextBulk]_vars

(* -------------------- create requests served concurrently --------------- *)

\* the create endpoints: handler, collection and the validated model
CreateOps == {"create_test", "start_attempt", "add_submission"}

CollectionOf(op) ==
    CASE op = "create_test" -> "test"
      [] op = "start_attempt" -> "attempt"
      [] op = "add_submission" -> "submission"

ModelOf(op, body) ==
    CASE op = "create_test" -> TestModel(body)
      [] op = "start_attempt" -> AttemptModel(body)
      [] op = "add_submission" -> SubmissionModel(body)

\* bodies that pass validation and reach the handler, two per endpoint
ValidBodies(op) ==
    CASE op = "create_test" ->
            {b \in TestBodies : TestValid(b) /\ "duration_minutes" \in DOMAIN b}
      [] op = "start_attempt" ->
            {b \in AttemptBodies : AttemptValid(b) /\ "user_name" \in DOMAIN b
                                                  /\ b.test_id = IdStr(1)}
      [] op = "add_submission" ->
            {b \in SubmissionBodies : SubmissionValid(b) /\ "test_id" \in DOMAIN b}

\* worker w takes a validated create request and enters its handler
Enter(w, op, body) ==
    /\ inflight[w] = Idle
    /\ Len(created) + Cardinality({v \in Workers : inflight[v] # Idle}) < MaxDocs
    /\ inflight' = [inflight EXCEPT ![w] = [pc |-> "called", op |-> op, body |-> body]]
    /\ UNCHANGED <<db, store, nextOid, created, resp>>

\* create_document runs in worker w: one atomic insert of the store, whose
\* outcome is kept in the worker's frame
StoreCall(w, fault) ==
    /\ inflight[w].pc = "called"
    /\ LET f == inflight[w]
           r == create_document(CollectionOf(f.op), ModelOf(f.op, f.body), fault)
       IN  /\ store' = r.store
           /\ nextOid' = r.next
           /\ inflight' = [inflight EXCEPT ![w] = [pc |-> "returned", op |-> f.op,
                                                   body |-> f.body, fault |-> fault,
                                                   out |-> r]]
    /\ UNCHANGED <<db, created, resp>>

\* the handler of worker w returns {"id": ...} or raises the 500
Respond(w) ==
    /\ inflight[w].pc = "returned"
    /\ LET f == inflight[w]
           r == ExceptException(ReturnId(f.out))
       IN  /\ Answer(f.op, f.body, f.fault, r)
           /\ Record(CollectionOf(f.op), f.body, r)
    /\ inflight' = [inflight EXCEPT ![w] = Idle]
    /\ UNCHANGED <<db, store, nextOid>>

NextConc ==
    \/ \E w \in Workers, op \in CreateOps : \E body \in ValidBodies(op) : Enter(w, op, body)
    \/ \E w \in Workers, fault \in BOOLEAN : StoreCall(w, fault)
    \/ \E w \in Workers : Respond(w)

SpecConc == Init /\ [][NextConc]_vars

(* ------------------------------- claims -------------------------------- *)

Ok(op) == resp.op = op /\ resp.status = 200

\* the test document the store holds under the native identifier o
TestsWithOid(o) == {i \in DOMAIN store["test"] : store["test"][i]["_id"] = o}

\* the creates of the history that returned the identifier of the last request
CreatedAs(coll, id) == {i \in DOMAIN created : created[i].coll = coll /\ created[i].id = id}

\* T with its defaults filled in, plus the id
RoundTripDoc(T, id) ==
    [f \in DOMAIN TestModel(T) \cup {"id"} |-> IF f = "id" THEN id ELSE TestModel(T)[f]]

\* C1: a GET of the identifier that create_test returned for payload T is
\* answered (unless the store call fails) with T's schema fields, defaults
\* filled in, plus an id equal to the returned string, and no _id.
C1_RoundTrip ==
    resp.op = "get_test" =>
        \A i \in CreatedAs("test", resp.req.test_id) :
            /\ resp.status = IF resp.fault THEN 500 ELSE 200
            /\ resp.status = 200 =>
                  /\ resp.body = RoundTripDoc(created[i].body, created[i].id)
                  /\ resp.body["id"] = resp.req.test_id
                  /\ "_id" \notin DOMAIN resp.body

C1_Witness ==
    /\ Ok("get_test")
    /\ \E i \in CreatedAs("test", resp.req.test_id) :
          /\ created[i].body.title = "Frontend Basics"
          /\ "published" \notin DOMAIN created[i].body
          /\ resp.body.published = FALSE
          /\ resp.body.tags = <<"js">>

\* a str that is not 24 hexadecimal digits
Malformed(s) ==
    \/ Len(s) # 24
    \/ \E i \in 1..Len(s) :
          s[i] \notin {"0","1","2","3","4","5","6","7","8","9","a","b","c","d","e","f",
                       "A","B","C","D","E","F"}

\* C2: a GET of a malformed test identifier is answered 400 without any
\* store access, whatever the store's state and availability.
C2_MalformedShortCircuit ==
    (resp.op = "get_test" /\ Malformed(resp.req.test_id)) =>
        /\ resp.status = 400
        /\ resp.calls = 0
        /\ resp.body = [detail |-> "Invalid test id"]

C2_Witness ==
    /\ resp.op = "get_test" /\ Malformed(resp.req.test_id)
    /\ db = "None"
    /\ resp.fault
    /\ resp.status = 400

\* C3: a GET of a well-formed identifier that names no test document is
\* answered 404 when the store query succeeds, and the 400 and 404 raised
\* inside get_test reach the caller as they are, never as 500.
C3_NotFound ==
    resp.op = "get_test" =>
        /\ (/\ ~Malformed(resp.req.test_id)
            /\ TestsWithOid(ObjectId(resp.req.test_id)) = {}
            /\ db = "Database" /\ ~resp.fault)
           => (resp.status = 404 /\ resp.body = [detail |-> "Test not found"])
        /\ Malformed(resp.req.test_id) => resp.status = 400
        /\ resp.status = 500 =>
              (~Malformed(resp.req.test_id) /\ (db = "None" \/ resp.fault))

\* the identifier is well formed and names an attempt, not a test
C3_Witness ==
    /\ resp.op = "get_test" /\ resp.status = 404
    /\ store["test"] # <<>>
    /\ \E i \in DOMAIN store["attempt"] :
          ObjectIdStr(store["attempt"][i]["_id"]) = resp.req.test_id

\* the native identifiers, as strings, of the documents of a collection
\* that satisfy P
IdsWhere(coll, P(_)) ==
    {ObjectIdStr(store[coll][i]["_id"]) : i \in {j \in DOMAIN store[coll] : P(store[coll][j])}}

ReturnedIds == {resp.body[i]["id"] : i \in DOMAIN resp.body}

\* the value of a given query parameter
Given(param) == CHOOSE v \in param : TRUE

\* C4 as stated: every provided parameter constrains its field, the empty
\* string included.
C4_FilterProvided ==
    /\ Ok("list_attempts") =>
          LET P(d) == /\ resp.req.test_id # {} => d["test_id"] = Given(resp.req.test_id)
                      /\ resp.req.user_email # {} => d["user_email"] = Given(resp.req.user_email)
          IN  ReturnedIds = IdsWhere("attempt", P) /\ Len(resp.body) = Cardinality(ReturnedIds)
    /\ Ok("list_submissions") =>
          LET P(d) == resp.req.attempt_id # {} => d["attempt_id"] = Given(resp.req.attempt_id)
          IN  ReturnedIds = IdsWhere("submission", P) /\ Len(resp.body) = Cardinality(ReturnedIds)

\* a parameter that is given and is not the empty string
NonEmpty(param) == param # {} /\ Given(param) # <<>>

\* C4 (amended): the listing returns exactly the stored documents whose
\* fields equal every provided non-empty parameter; a parameter that is
\* omitted or empty places no constraint.
C4_FilterNonEmpty ==
    /\ Ok("list_attempts") =>
          LET P(d) == /\ NonEmpty(resp.req.test_id) => d["test_id"] = Given(resp.req.test_id)
                      /\ NonEmpty(resp.req.user_email) => d["user_email"] = Given(resp.req.user_email)
          IN  /\ ReturnedIds = IdsWhere("attempt", P)
              /\ Len(resp.body) = Cardinality(ReturnedIds)
              /\ \A i \in DOMAIN resp.body : P(resp.body[i])
    /\ Ok("list_submissions") =>
          LET P(d) == NonEmpty(resp.req.attempt_id) => d["attempt_id"] = Given(resp.req.attempt_id)
          IN  /\ ReturnedIds = IdsWhere("submission", P)
              /\ Len(resp.body) = Cardinality(ReturnedIds)
              /\ \A i \in DOMAIN resp.body : P(resp.body[i])

\* both parameters given: one attempt is returned, another of the same test
\* is excluded by its user_email
C4_Witness ==
    /\ Ok("list_attempts")
    /\ NonEmpty(resp.req.test_id) /\ NonEmpty(resp.req.user_email)
    /\ Len(resp.body) = 1
    /\ \E i \in DOMAIN store["attempt"] :
          /\ store["attempt"][i]["test_id"] = Given(resp.req.test_id)
          /\ store["attempt"][i]["user_email"] # Given(resp.req.user_email)

\* C5 as stated: at most N documents for every integer N.
C5_LimitAnyInteger == Ok("list_tests") => Len(resp.body) <= resp.req.limit

\* C5 (amended): for every limit N >= 1 the listing returns at most N
\* documents, the first N in the store's order when more are stored.
C5_LimitPositive ==
    (Ok("list_tests") /\ resp.req.limit >= 1) =>
        /\ Len(resp.body) <= resp.req.limit
        /\ Len(resp.body) = IF Len(store["test"]) < resp.req.limit
                            THEN Len(store["test"]) ELSE resp.req.limit

C5_Witness ==
    /\ Ok("list_tests")
    /\ resp.req.limit = 1
    /\ Len(store["test"]) > 1
    /\ Len(resp.body) = 1

\* d is a stored document of the collection with its native identifier
\* replaced by the field id, the identifier's string form
Normalized(d, coll) ==
    /\ "id" \in DOMAIN d
    /\ "_id" \notin DOMAIN d
    /\ \E j \in DOMAIN store[coll] :
          LET raw == store[coll][j]
          IN  /\ d["id"] = [k \in 1..24 |-> HexLower[raw["_id"][k] + 1]]
              /\ DOMAIN d \ {"id"} = DOMAIN raw \ {"_id"}
              /\ \A f \in DOMAIN d \ {"id"} : d[f] = raw[f]

\* C6: every document a list or get endpoint returns carries id, the string
\* form of a stored document's native identifier, and no _id.
C6_IdNormalized ==
    /\ Ok("list_tests") => \A i \in DOMAIN resp.body : Normalized(resp.body[i], "test")
    /\ Ok("get_test") => Normalized(resp.body, "test")
    /\ Ok("list_attempts") => \A i \in DOMAIN resp.body : Normalized(resp.body[i], "attempt")
    /\ Ok("list_submissions") =>
          \A i \in DOMAIN resp.body : Normalized(resp.body[i], "submission")

C6_Witness == Ok("list_attempts") /\ Len(resp.body) = 2

ReadOps == {"list_tests", "get_test", "list_attempts", "list_submissions"}

\* C7: no request removes or changes a stored document: every collection
\* keeps its documents as a prefix, and a list or get leaves the store as
\* it is.
C7_AppendOnly ==
    [][/\ \A c \in Collections :
             /\ Len(store[c]) <= Len(store'[c])
             /\ SubSeq(store'[c], 1, Len(store[c])) = store[c]
       /\ resp'.op \in ReadOps => store' = store]_vars

\* two documents are stored and the last request, a read, was served
C7_Witness ==
    /\ Len(created) = 2
    /\ resp.op \in ReadOps /\ resp.status = 200
    /\ Len(store["attempt"]) = 2

\* a body that fails structural validation: a required field is missing or
\* an enumerated field holds a value outside its set
InvalidBody(r) ==
    \/ /\ r.op = "start_attempt"
       /\ \/ {"test_id", "user_email", "user_name"} \ DOMAIN r.req # {}
          \/ "status" \in DOMAIN r.req /\ r.req["status"] \notin {"active", "finished"}
    \/ /\ r.op = "create_test"
       /\ \/ {"title", "description"} \ DOMAIN r.req # {}
          \/ /\ "questions" \in DOMAIN r.req
             /\ \E i \in DOMAIN r.req["questions"] :
                   LET q == r.req["questions"][i]
                   IN  \/ {"title", "prompt"} \ DOMAIN q # {}
                       \/ "type" \in DOMAIN q /\ q["type"] \notin {"mcq", "code"}
    \/ /\ r.op = "add_submission"
       /\ {"attempt_id", "test_id", "question_index"} \ DOMAIN r.req # {}

\* C8: a POST whose body fails validation is answered 422 with the handler
\* not run: no store access, nothing inserted.
C8_ValidationRejects ==
    [][InvalidBody(resp') =>
          /\ resp'.status = 422
          /\ resp'.calls = 0
          /\ store' = store
          /\ created' = created]_vars

\* the only defect of the body is its status, and the store is not empty
C8_Witness ==
    /\ resp.op = "start_attempt" /\ resp.status = 422
    /\ {"test_id", "user_email", "user_name"} \subseteq DOMAIN resp.req
    /\ resp.req["status"] = "started"
    /\ store["attempt"] # <<>>

\* the stored documents a create of the history inserted
StoredAs(e) ==
    {j \in DOMAIN store[e.coll] : ObjectIdStr(store[e.coll][j]["_id"]) = e.id}

\* the stored document has value v in field f when the body omitted f
DefaultsTo(e, d, f, v) == f \notin DOMAIN e.body => d[f] = v

\* C9: a field omitted from the body is stored with its default: Test
\* published=false, duration_minutes=60, tags=[], questions=[]; Attempt
\* status="active", score=0, total_points=0, submissions=[]; a User without
\* role validates to role="test_taker".
C9_Defaults ==
    /\ \A i \in DOMAIN created :
          LET e == created[i]
          IN  /\ Cardinality(StoredAs(e)) = 1
              /\ \A j \in StoredAs(e) :
                    LET d == store[e.coll][j]
                    IN  /\ e.coll = "test" =>
                              /\ DefaultsTo(e, d, "published", FALSE)
                              /\ DefaultsTo(e, d, "duration_minutes", 60)
                              /\ DefaultsTo(e, d, "tags", <<>>)
                              /\ DefaultsTo(e, d, "questions", <<>>)
                        /\ e.coll = "attempt" =>
                              /\ DefaultsTo(e, d, "status", "active")
                              /\ DefaultsTo(e, d, "score", 0)
                              /\ DefaultsTo(e, d, "total_points", 0)
                              /\ DefaultsTo(e, d, "submissions", <<>>)
    /\ \A b \in UserBodies :
          ({"name", "email"} \subseteq DOMAIN b /\ "role" \notin DOMAIN b)
              => (UserValid(b) /\ UserModel(b)["role"] = "test_taker")

C9_Witness ==
    /\ \E i \in DOMAIN created :
          /\ created[i].coll = "test"
          /\ {"published", "duration_minutes", "tags", "questions"} \cap DOMAIN created[i].body = {}
    /\ \E i \in DOMAIN created :
          /\ created[i].coll = "attempt"
          /\ "status" \notin DOMAIN created[i].body

\* C10: every stored Attempt was inserted in status "active".
C10_CreatedActive ==
    \A i \in DOMAIN store["attempt"] : store["attempt"][i]["status"] = "active"

HandlerOps == {"create_test", "list_tests", "get_test", "start_attempt",
               "list_attempts", "add_submission", "list_submissions"}

\* the text of the exception the store raises for the last request
RaisedText ==
    IF db = "None"
    THEN (IF resp.op = "get_test" THEN NotSubscriptable ELSE NotAvailable)
    ELSE StoreError

\* C11 as stated: the detail of the 500 is the exception's text truncated.
C11_TruncatedDetail ==
    (resp.op \in HandlerOps /\ resp.status \notin {200, 400, 404, 422}) =>
        /\ resp.status = 500
        /\ resp.body.detail = Truncate(RaisedText, TruncLen)

\* C11 (amended): in every create, list and get handler an exception that
\* is not a 400/404 is answered 500 with a detail that is the whole text of
\* the exception, however long.
C11_WholeDetail ==
    (resp.op \in HandlerOps /\ resp.status \notin {200, 400, 404, 422}) =>
        /\ resp.status = 500
        /\ resp.body.detail = RaisedText
        /\ (db = "None" \/ resp.fault)

\* a text longer than the cut of /test is surfaced whole
C11_Witness ==
    /\ resp.op \in HandlerOps /\ resp.status = 500
    /\ resp.body.detail.len > TruncLen

\* the last request needs the store: a create with a valid body, a list, or
\* a get with a well-formed identifier
StoreDependent(r) ==
    \/ r.op \in {"list_tests", "list_attempts", "list_submissions"}
    \/ r.op \in {"create_test", "start_attempt", "add_submission"} /\ ~InvalidBody(r)
    \/ r.op = "get_test" /\ ~Malformed(r.req.test_id)

\* C12: with the handle absent or the store call failing, a store-dependent
\* request is answered 500 and changes nothing; /health and /schema are
\* answered 200 all the same; and the request after a 500 is served: it is
\* answered 200 (or 404 for an unknown test) once the store answers.
C12_PerRequestFailure ==
    [][/\ (StoreDependent(resp') /\ (db = "None" \/ resp'.fault)) =>
             (resp'.status = 500 /\ store' = store /\ created' = created)
       /\ resp'.op \in {"read_root", "get_schema"} => resp'.status = 200
       /\ (resp.status = 500 /\ StoreDependent(resp') /\ db = "Database" /\ ~resp'.fault) =>
             resp'.status \in {200, 404}
       /\ resp.status = 500 => db' = db]_vars

\* the store failed one request of a service that had served a create
C12_Witness ==
    /\ resp.status = 500 /\ resp.fault /\ StoreDependent(resp)
    /\ db = "Database"
    /\ created # <<>>

\* C13: a served POST /api/submissions appends exactly one document to the
\* submission collection and leaves the attempt, test and user collections
\* as they are: the attempt it names gets nothing appended to submissions.
C13_NoLinkage ==
    [][(resp'.op = "add_submission" /\ resp'.status = 200) =>
          /\ Len(store'["submission"]) = Len(store["submission"]) + 1
          /\ SubSeq(store'["submission"], 1, Len(store["submission"])) = store["submission"]
          /\ \A c \in {"attempt", "test", "user"} : store'[c] = store[c]]_vars

\* the submission names a stored attempt, whose submissions list is empty
C13_Witness ==
    /\ Ok("add_submission")
    /\ \E i \in DOMAIN store["attempt"] :
          /\ ObjectIdStr(store["attempt"][i]["_id"]) = resp.req["attempt_id"]
          /\ store["attempt"][i]["submissions"] = <<>>
    /\ Len(store["submission"]) = 1

\* the last document of a collection
Last(coll) == store[coll][Len(store[coll])]

\* C14: with the store answering, POST /api/attempts is served and stores
\* the Attempt for any test_id, and POST /api/submissions for any
\* attempt_id, test_id and question_index, whether or not they name a
\* stored Test, Attempt or question.
C14_NoReferentialIntegrity ==
    /\ (resp.op = "start_attempt" /\ ~InvalidBody(resp) /\ db = "Database" /\ ~resp.fault) =>
          /\ resp.status = 200
          /\ store["attempt"] # <<>>
          /\ ObjectIdStr(Last("attempt")["_id"]) = resp.body["id"]
          /\ Last("attempt")["test_id"] = resp.req["test_id"]
    /\ (resp.op = "add_submission" /\ ~InvalidBody(resp) /\ db = "Database" /\ ~resp.fault) =>
          /\ resp.status = 200
          /\ store["submission"] # <<>>
          /\ ObjectIdStr(Last("submission")["_id"]) = resp.body["id"]
          /\ \A f \in {"attempt_id", "test_id", "question_index"} :
                Last("submission")[f] = resp.req[f]

\* a submission is stored for an attempt, a test and a question that do not exist
C14_Witness ==
    /\ Ok("add_submission")
    /\ store["test"] = <<>> /\ store["attempt"] = <<>>
    /\ resp.req["question_index"] = 7
    /\ Len(store["submission"]) = 2

\* C15: GET /api/tests without a limit parameter returns at most 50
\* documents, the first 50 when more tests are stored.
C15_DefaultCap ==
    (Ok("list_tests") /\ ~resp.req.given) =>
        /\ Len(resp.body) <= 50
        /\ Len(resp.body) = IF Len(store["test"]) < 50 THEN Len(store["test"]) ELSE 50

\* more than 50 tests are stored and 50 are returned
C15_Witness ==
    /\ Ok("list_tests") /\ ~resp.req.given
    /\ Len(store["test"]) > 50
    /\ Len(resp.body) = 50

\* C16: /test is always served with a status object; it reports
\* "Connected" exactly when listing the collections succeeded, and otherwise
\* "Not Connected" with a line that describes the store: not initialized, or
\* the error's text cut to 80 characters.
C16_DiagnosticNeverFails ==
    resp.op = "test_database" =>
        /\ resp.status = 200
        /\ DOMAIN resp.body = {"backend", "database", "database_url", "database_name",
                               "connection_status", "collections"}
        /\ resp.body.connection_status \in {"Connected", "Not Connected"}
        /\ resp.body.connection_status = "Connected" <=> (db = "Database" /\ ~resp.fault)
        /\ db = "None" =>
              /\ resp.body.database.says = "Available but not initialized"
              /\ resp.body.collections = <<>>
        /\ (db = "Database" /\ resp.fault) =>
              /\ resp.body.database.says = "Connected but Error"
              /\ resp.body.database.error.words = StoreError.words
              /\ resp.body.database.error.len = 80
              /\ resp.body.collections = <<>>
        /\ (db = "Database" /\ ~resp.fault) =>
              /\ resp.body.database.says = "Connected & Working"
              /\ \A c \in Collections :
                    (\E i \in DOMAIN resp.body.collections : resp.body.collections[i] = c)
                        <=> store[c] # <<>>

\* listing the collections raised, with documents in the store
C16_Witness ==
    /\ resp.op = "test_database" /\ resp.status = 200
    /\ db = "Database" /\ resp.fault
    /\ resp.body.connection_status = "Not Connected"
    /\ store["test"] # <<>>

\* the parameter as if it had been omitted when it is the empty string
EmptyDropped(param) == IF param = {<<>>} THEN {} ELSE param

\* C18: an empty-string query parameter constrains nothing: the listing
\* returns what the same request without that parameter returns, not only
\* the documents whose field is the empty string.
C18_EmptyAsOmitted ==
    /\ Ok("list_attempts") =>
          /\ resp.body \in {r.val : r \in list_attempts(EmptyDropped(resp.req.test_id),
                                                        EmptyDropped(resp.req.user_email),
                                                        FALSE)}
          /\ (EmptyDropped(resp.req.test_id) = {} /\ EmptyDropped(resp.req.user_email) = {})
                => Len(resp.body) = Len(store["attempt"])
    /\ Ok("list_submissions") =>
          /\ resp.body \in {r.val : r \in list_submissions(EmptyDropped(resp.req.attempt_id),
                                                           FALSE)}
          /\ EmptyDropped(resp.req.attempt_id) = {}
                => Len(resp.body) = Len(store["submission"])

\* user_email is given empty: the attempt whose user_email is empty and the
\* attempt whose user_email is not are both returned
C18_Witness ==
    /\ Ok("list_attempts")
    /\ resp.req.user_email = {<<>>} /\ resp.req.test_id = {}
    /\ Len(resp.body) = 2
    /\ \E i, j \in DOMAIN resp.body :
          resp.body[i]["user_email"] = <<>> /\ resp.body[j]["user_email"] # <<>>

\* the stored documents, as pairs of collection and position
StoredDocs == {p \in Collections \X (1..MaxDocs) : p[2] <= Len(store[p[1]])}

\* the workers whose insert succeeded and whose response is still to come
Unanswered == {w \in Workers : inflight[w].pc = "returned" /\ inflight[w].out.ok}

\* C17: however concurrent create requests interleave, the identifiers
\* returned by successful creates are pairwise distinct, each names exactly
\* one stored document, which holds the validated body of its request, and
\* the store holds one document per successful insert: none is lost or
\* overwritten.
C17_ConcurrentCreates ==
    /\ \A i, j \in DOMAIN created : i # j => created[i].id # created[j].id
    /\ \A i \in DOMAIN created :
          LET e == created[i]
              T == ModelOf(IF e.coll = "test" THEN "create_test"
                           ELSE IF e.coll = "attempt" THEN "start_attempt"
                           ELSE "add_submission", e.body)
          IN  /\ Cardinality(StoredAs(e)) = 1
              /\ \A j \in StoredAs(e) :
                    /\ DOMAIN store[e.coll][j] = DOMAIN T \cup {"_id"}
                    /\ \A f \in DOMAIN T : store[e.coll][j][f] = T[f]
    /\ \A p, q \in StoredDocs :
          p # q => store[p[1]][p[2]]["_id"] # store[q[1]][q[2]]["_id"]
    /\ Cardinality(StoredDocs) = Len(created) + Cardinality(Unanswered)

\* two creates of tests overlapped: the one that inserted second was
\* answered first
C17_Witness ==
    /\ Len(created) = 2 /\ Len(store["test"]) = 2
    /\ created[1].coll = "test" /\ created[2].coll = "test"
    /\ created[1].id = ObjectIdStr(store["test"][2]["_id"])
    /\ created[2].id = ObjectIdStr(store["test"][1]["_id"])
    /\ created[1].body # created[2].body

====
